---- MODULE Spec2Model ----
(***************************************************************************)
(* Room coordination and execution arbitration of the realtime code       *)
(* editor server (backend/index.js, the Wandbox revision, lines 217-479). *)
(* One action per socket event handler; the asynchronous compileCode      *)
(* handler is split at its await points (provider reply, retry delay).    *)
(***************************************************************************)
EXTENDS Bags, FiniteSets, Integers, Sequences, TLC

\* ------------------------------------------------------------------ bounds
MaxJobs == 1            \* provider calls in flight at once (all connections)
MaxTimers == 2          \* expiry timers of one kind pending in one browser

\* --------------------------------------------------------------- constants
COMPILE_COOLDOWN_MS == 3000
RETRY_DELAY_MS == 1000
MAX_RETRIES == 2
TYPING_EXPIRY_MS == 1500
TOAST_EXPIRY_MS == 3000

\* JavaScript null / undefined (closure variables before a join, a Map miss).
Null == "<null>"
\* The empty string: a value a client can send that JavaScript treats as false.
Empty == ""
Falsy(x) == x \in {Null, Empty}

Conns == {"s1", "s2"}
RoomIds == {"r1", "r2"}
UserNames == {"alice", "bob"}
\* what a client may put in a join payload: the server does not validate it
RoomIdInputs == RoomIds \cup {Empty}
UserNameInputs == UserNames \cup {Empty}

DefaultCode == "// start code here"
Codes == {"print(1)", "print(2)"}

\* Date.now() is epoch milliseconds, far above the cooldown: the first
\* submission of a connection always sees now - 0 >= COMPILE_COOLDOWN_MS.
StartTime == 2 * COMPILE_COOLDOWN_MS
\* The instants (ms after StartTime) at which the model looks at the clock.
Offsets == {0, 500, 1500, 3000}
Instants == {StartTime + d : d \in Offsets}

VARIABLES
  status,           \* per connection: "new", "connected", "disconnected"
  currentRoom,      \* closure variable of each connection
  currentUser,      \* closure variable of each connection
  socketRooms,      \* socket.io adapter: rooms each socket is subscribed to
  rooms,            \* the room registry (Map roomId -> {users, code, output})
  lastCompileTime,  \* the rate-limit Map socket.id -> timestamp
  now,              \* Date.now()
  jobs,             \* bag of compileCode invocations suspended at an await
  out,              \* what the last step emitted, in order
  joinedLast,       \* history: per room, names whose latest action was a join
  lastAccepted,     \* history: per connection, time of its latest accepted run (0: none)
  roomLanguage,     \* history: per room, the tag of the latest languageChange
                    \* broadcast for it since it was registered (the server keeps none)
  client,           \* per connection, the browser side: the typing indicator and
                    \* the toast with their pending expiry timers
  stale             \* history: for each watched room id, the connections with a
                    \* pending submission for it that was accepted before the
                    \* room last left the registry

vars == <<status, currentRoom, currentUser, socketRooms, rooms, lastCompileTime,
          now, jobs, out, joinedLast, lastAccepted, roomLanguage, client, stale>>

\* ------------------------------------------------------------------ helpers
\* Map.delete / Map.set on a function with a varying domain
MapDelete(m, k) == [x \in (DOMAIN m) \ {k} |-> m[x]]
MapSet(m, k, v) == [x \in (DOMAIN m) \cup {k} |-> IF x = k THEN v ELSE m[x]]

\* a fresh room object, as created by join
\* (output is undefined until a run completes: the empty text stands for it)
NewRoom == [users |-> {}, code |-> DefaultCode, output |-> << >>]

\* io.to(room): the connected sockets subscribed to room under subscription sr
IoTo(sr, st, room) == {c \in Conns : st[c] = "connected" /\ room \in sr[c]}
\* a broadcast that echoes to the sender
SocketTo_IncludesSender(sr, st, s, room) == IoTo(sr, st, room)
\* socket.to(room): the same, without the sender
SocketTo(sr, st, s, room) == IoTo(sr, st, room) \ {s}

Emit(name, payload, to) == [ev |-> name, payload |-> payload, to |-> to]

\* history bookkeeping: name n's latest action on room r becomes a leave / a join
NoteLeave(jl, r, n) == IF r = Null THEN jl ELSE [jl EXCEPT ![r] = @ \ {n}]
NoteJoin(jl, r, n) == [jl EXCEPT ![r] = @ \cup {n}]
\* a room deleted from the registry takes its language history with it
KeepLanguages(reg) ==
  [r \in RoomIdInputs |-> IF r \in DOMAIN reg THEN roomLanguage[r] ELSE Null]

\* history bookkeeping: the registry becomes reg, and the submissions pending
\* for a watched room that leaves it are marked; js are the submissions still
\* pending, and a connection with none left for the room is unmarked
StaleAfterRemoval(reg) ==
  [r \in DOMAIN stale |->
     IF r \in DOMAIN rooms /\ r \notin DOMAIN reg
       THEN stale[r] \cup {j.sock : j \in {x \in BagToSet(jobs) : x.roomId = r}}
       ELSE stale[r]]
StaleAfterReturn(js) ==
  [r \in DOMAIN stale |->
     {s \in stale[r] : \E j \in BagToSet(js) : j.sock = s /\ j.roomId = r}]

\* the browser state after the first render: no indicator, no toast, no
\* timer; typingAt / toastAt are history (arrival time of the latest event)
NewClient ==
  [typingUser |-> Null, typingTimers |-> EmptyBag, typingAt |-> 0,
   toast |-> << >>, toastTimers |-> EmptyBag, toastAt |-> 0]

\* ---------------------------------------------------------------- Init
\* the state after construction; watch is the set of room ids whose pending
\* submissions the history follows
InitState(watch) ==
  /\ status = [c \in Conns |-> "new"]
  /\ currentRoom = [c \in Conns |-> Null]
  /\ currentUser = [c \in Conns |-> Null]
  /\ socketRooms = [c \in Conns |-> {}]
  /\ rooms = [r \in {} |-> NewRoom]
  /\ lastCompileTime = [c \in {} |-> 0]
  /\ now = StartTime
  /\ jobs = EmptyBag
  /\ out = <<>>
  /\ joinedLast = [r \in RoomIdInputs |-> {}]
  /\ lastAccepted = [c \in Conns |-> 0]
  /\ roomLanguage = [r \in RoomIdInputs |-> Null]
  /\ client = [c \in Conns |-> NewClient]
  /\ stale = [r \in watch |-> {}]

Init == InitState({})

\* ------------------------------------------------------------ connection
\* io.on("connection"): a fresh closure with currentRoom = currentUser = null
Connect(s) ==
  /\ status[s] = "new"
  /\ status' = [status EXCEPT ![s] = "connected"]
  /\ currentRoom' = [currentRoom EXCEPT ![s] = Null]
  /\ currentUser' = [currentUser EXCEPT ![s] = Null]
  /\ out' = <<>>
  /\ UNCHANGED <<client, stale, socketRooms, rooms, lastCompileTime, now, jobs,
                 joinedLast, lastAccepted, roomLanguage>>

\* ------------------------------------------------------------------ join
\* the registry after the "leave existing room" guard of join
JoinPrevRooms(s) ==
  IF ~Falsy(currentRoom[s]) /\ currentRoom[s] \in DOMAIN rooms
    THEN [rooms EXCEPT ![currentRoom[s]].users = @ \ {currentUser[s]}]
    ELSE rooms

\* the subscriptions after socket.leave(currentRoom) of the guard
JoinPrevSubs(s) ==
  IF ~Falsy(currentRoom[s])
    THEN [socketRooms EXCEPT ![s] = @ \ {currentRoom[s]}]
    ELSE socketRooms

\* what the guard emits: the prior room's member list to its subscribers
JoinPrevOut(s) ==
  IF ~Falsy(currentRoom[s]) /\ currentRoom[s] \in DOMAIN rooms
    THEN << Emit("userJoined", JoinPrevRooms(s)[currentRoom[s]].users,
                 IoTo(JoinPrevSubs(s), status, currentRoom[s])) >>
    ELSE << >>

\* a join that sends the document to the whole room
Join_SnapshotToRoom(s, roomId, userName) ==
  /\ status[s] = "connected"
  /\ LET sr == [JoinPrevSubs(s) EXCEPT ![s] = @ \cup {roomId}]
         r1 == JoinPrevRooms(s)
         r2 == IF roomId \in DOMAIN r1 THEN r1 ELSE MapSet(r1, roomId, NewRoom)
         r3 == [r2 EXCEPT ![roomId].users = @ \cup {userName}]
     IN /\ socketRooms' = sr
        /\ rooms' = r3
        /\ out' = JoinPrevOut(s) \o
                  << Emit("toast", <<userName, " joined the room">>,
                          IoTo(sr, status, roomId)),
                     Emit("codeUpdate", r3[roomId].code, IoTo(sr, status, roomId)),
                     Emit("userJoined", r3[roomId].users,
                          IoTo(sr, status, roomId)) >>
  /\ currentRoom' = [currentRoom EXCEPT ![s] = roomId]
  /\ currentUser' = [currentUser EXCEPT ![s] = userName]
  /\ joinedLast' = NoteJoin(NoteLeave(joinedLast, currentRoom[s], currentUser[s]),
                            roomId, userName)
  /\ UNCHANGED <<client, stale, status, lastCompileTime, now, jobs, lastAccepted, roomLanguage>>

Join(s, roomId, userName) ==
  /\ status[s] = "connected"
  /\ LET sr == [JoinPrevSubs(s) EXCEPT ![s] = @ \cup {roomId}]
         r1 == JoinPrevRooms(s)
         r2 == IF roomId \in DOMAIN r1 THEN r1 ELSE MapSet(r1, roomId, NewRoom)
         r3 == [r2 EXCEPT ![roomId].users = @ \cup {userName}]
     IN /\ socketRooms' = sr
        /\ rooms' = r3
        /\ out' = JoinPrevOut(s) \o
                  << Emit("toast", <<userName, " joined the room">>,
                          IoTo(sr, status, roomId)),
                     Emit("codeUpdate", r3[roomId].code, {s}),
                     Emit("userJoined", r3[roomId].users,
                          IoTo(sr, status, roomId)) >>
  /\ currentRoom' = [currentRoom EXCEPT ![s] = roomId]
  /\ currentUser' = [currentUser EXCEPT ![s] = userName]
  /\ joinedLast' = NoteJoin(NoteLeave(joinedLast, currentRoom[s], currentUser[s]),
                            roomId, userName)
  /\ UNCHANGED <<client, stale, status, lastCompileTime, now, jobs, lastAccepted, roomLanguage>>

\* ------------------------------------------------------------- leaveRoom
\* the early returns shared by leaveRoom and disconnect
LeaveGuard(s) ==
  /\ ~Falsy(currentRoom[s])
  /\ ~Falsy(currentUser[s])
  /\ currentRoom[s] \in DOMAIN rooms

\* room.users.delete(currentUser); if (room.users.size === 0) rooms.delete(...)
RemoveMember(s) ==
  LET cr == currentRoom[s]
      users == rooms[cr].users \ {currentUser[s]}
  IN IF users = {} THEN MapDelete(rooms, cr)
                   ELSE [rooms EXCEPT ![cr].users = users]

\* a handler that unsubscribes the socket before it emits
LeaveRoom_UnsubscribesFirst(s) ==
  /\ status[s] = "connected"
  /\ joinedLast' = NoteLeave(joinedLast, currentRoom[s], currentUser[s])
  /\ IF LeaveGuard(s)
       THEN /\ socketRooms' = [socketRooms EXCEPT ![s] = @ \ {currentRoom[s]}]
            /\ out' = << Emit("toast", <<currentUser[s], " left the room">>,
                              IoTo(socketRooms', status, currentRoom[s])),
                         Emit("userJoined",
                              rooms[currentRoom[s]].users \ {currentUser[s]},
                              IoTo(socketRooms', status, currentRoom[s])) >>
            /\ rooms' = RemoveMember(s)
            /\ currentRoom' = [currentRoom EXCEPT ![s] = Null]
            /\ currentUser' = [currentUser EXCEPT ![s] = Null]
       ELSE /\ out' = << >>
            /\ UNCHANGED <<rooms, socketRooms, currentRoom, currentUser>>
  /\ roomLanguage' = KeepLanguages(rooms')
  /\ stale' = StaleAfterRemoval(rooms')
  /\ UNCHANGED <<client, status, lastCompileTime, now, jobs, lastAccepted>>

LeaveRoom(s) ==
  /\ status[s] = "connected"
  /\ joinedLast' = NoteLeave(joinedLast, currentRoom[s], currentUser[s])
  /\ IF LeaveGuard(s)
       THEN /\ out' = << Emit("toast", <<currentUser[s], " left the room">>,
                              IoTo(socketRooms, status, currentRoom[s])),
                         Emit("userJoined",
                              rooms[currentRoom[s]].users \ {currentUser[s]},
                              IoTo(socketRooms, status, currentRoom[s])) >>
            /\ rooms' = RemoveMember(s)
            /\ socketRooms' = [socketRooms EXCEPT ![s] = @ \ {currentRoom[s]}]
            /\ currentRoom' = [currentRoom EXCEPT ![s] = Null]
            /\ currentUser' = [currentUser EXCEPT ![s] = Null]
       ELSE /\ out' = << >>
            /\ UNCHANGED <<rooms, socketRooms, currentRoom, currentUser>>
  /\ roomLanguage' = KeepLanguages(rooms')
  /\ stale' = StaleAfterRemoval(rooms')
  /\ UNCHANGED <<client, status, lastCompileTime, now, jobs, lastAccepted>>

\* ------------------------------------------------------------ disconnect
\* socket.io removes the socket from every room before it fires "disconnect",
\* so the handler's broadcasts reach the remaining subscribers only.
Disconnect(s) ==
  /\ status[s] = "connected"
  /\ status' = [status EXCEPT ![s] = "disconnected"]
  /\ socketRooms' = [socketRooms EXCEPT ![s] = {}]
  /\ joinedLast' = NoteLeave(joinedLast, currentRoom[s], currentUser[s])
  /\ IF LeaveGuard(s)
       THEN /\ out' = << Emit("toast", <<currentUser[s], " disconnected">>,
                              IoTo(socketRooms', status', currentRoom[s])),
                         Emit("userJoined",
                              rooms[currentRoom[s]].users \ {currentUser[s]},
                              IoTo(socketRooms', status', currentRoom[s])) >>
            /\ rooms' = RemoveMember(s)
            /\ lastCompileTime' = MapDelete(lastCompileTime, s)
            /\ currentRoom' = [currentRoom EXCEPT ![s] = Null]
            /\ currentUser' = [currentUser EXCEPT ![s] = Null]
       ELSE /\ out' = << >>
            /\ UNCHANGED <<rooms, lastCompileTime, currentRoom, currentUser>>
  /\ roomLanguage' = KeepLanguages(rooms')
  /\ stale' = StaleAfterRemoval(rooms')
  /\ UNCHANGED <<client, now, jobs, lastAccepted>>

\* ------------------------------------------------------------ codeChange
\* a handler that appends the text to the document instead of replacing it
CodeChange_Appends(s, roomId, code) ==
  /\ status[s] = "connected"
  /\ IF roomId \in DOMAIN rooms
       THEN /\ rooms' = [rooms EXCEPT ![roomId].code =
                           IF @ = DefaultCode THEN code ELSE "<old text + new text>"]
            /\ out' = << Emit("codeUpdate", rooms'[roomId].code,
                              SocketTo(socketRooms, status, s, roomId)) >>
       ELSE /\ out' = << >>
            /\ UNCHANGED rooms
  /\ UNCHANGED <<client, stale, status, currentRoom, currentUser, socketRooms, lastCompileTime,
                 now, jobs, joinedLast, lastAccepted, roomLanguage>>

\* a handler that keeps the first text written to a room
CodeChange_FirstWriterWins(s, roomId, code) ==
  /\ status[s] = "connected"
  /\ IF roomId \in DOMAIN rooms
       THEN /\ rooms' = IF rooms[roomId].code = DefaultCode
                          THEN [rooms EXCEPT ![roomId].code = code]
                          ELSE rooms
            /\ out' = << Emit("codeUpdate", code,
                              SocketTo(socketRooms, status, s, roomId)) >>
       ELSE /\ out' = << >>
            /\ UNCHANGED rooms
  /\ UNCHANGED <<client, stale, status, currentRoom, currentUser, socketRooms, lastCompileTime,
                 now, jobs, joinedLast, lastAccepted, roomLanguage>>

CodeChange(s, roomId, code) ==
  /\ status[s] = "connected"
  /\ IF roomId \in DOMAIN rooms
       THEN /\ rooms' = [rooms EXCEPT ![roomId].code = code]
            /\ out' = << Emit("codeUpdate", code,
                              SocketTo(socketRooms, status, s, roomId)) >>
       ELSE /\ out' = << >>
            /\ UNCHANGED rooms
  /\ UNCHANGED <<client, stale, status, currentRoom, currentUser, socketRooms, lastCompileTime,
                 now, jobs, joinedLast, lastAccepted, roomLanguage>>

\* ---------------------------------------------------------------- typing
\* a handler that broadcasts to the whole room
Typing_ToWholeRoom(s, roomId, userName) ==
  /\ status[s] = "connected"
  /\ out' = << Emit("userTyping", userName, IoTo(socketRooms, status, roomId)) >>
  /\ UNCHANGED <<client, stale, status, currentRoom, currentUser, socketRooms, rooms,
                 lastCompileTime, now, jobs, joinedLast, lastAccepted, roomLanguage>>

Typing(s, roomId, userName) ==
  /\ status[s] = "connected"
  /\ out' = << Emit("userTyping", userName,
                    SocketTo(socketRooms, status, s, roomId)) >>
  /\ UNCHANGED <<client, stale, status, currentRoom, currentUser, socketRooms, rooms,
                 lastCompileTime, now, jobs, joinedLast, lastAccepted, roomLanguage>>

\* -------------------------------------------------------- languageChange
\* a handler that is held back while a provider call is pending
LanguageChange_WaitsForCall(s, roomId, language) ==
  /\ status[s] = "connected"
  /\ jobs = EmptyBag
  /\ out' = << Emit("languageUpdate", language,
                    IoTo(socketRooms, status, roomId)) >>
  /\ roomLanguage' = IF roomId \in DOMAIN rooms
                       THEN [roomLanguage EXCEPT ![roomId] = language]
                       ELSE roomLanguage
  /\ UNCHANGED <<client, stale, status, currentRoom, currentUser, socketRooms, rooms,
                 lastCompileTime, now, jobs, joinedLast, lastAccepted>>

LanguageChange(s, roomId, language) ==
  /\ status[s] = "connected"
  /\ out' = << Emit("languageUpdate", language,
                    IoTo(socketRooms, status, roomId)) >>
  /\ roomLanguage' = IF roomId \in DOMAIN rooms
                       THEN [roomLanguage EXCEPT ![roomId] = language]
                       ELSE roomLanguage
  /\ UNCHANGED <<client, stale, status, currentRoom, currentUser, socketRooms, rooms,
                 lastCompileTime, now, jobs, joinedLast, lastAccepted>>

\* ----------------------------------------------------------- compileCode
\* Language -> Wandbox compiler mapping (an object literal)
WANDBOX_COMPILERS ==
  [l \in {"javascript", "python", "java", "cpp"} |->
     CASE l = "javascript" -> "nodejs-20.17.0"
       [] l = "python"     -> "cpython-3.12.7"
       [] l = "java"       -> "openjdk-jdk-22+36"
       [] l = "cpp"        -> "gcc-13.2.0"]

\* Property names every object literal inherits from Object.prototype.
ObjectPrototypeKeys == {"constructor", "toString", "valueOf", "hasOwnProperty"}

\* WANDBOX_COMPILERS[language]: an own property, else an inherited one (a
\* function object, which is truthy), else undefined.
CompilerFor(language) ==
  IF language \in DOMAIN WANDBOX_COMPILERS THEN WANDBOX_COMPILERS[language]
  ELSE IF language \in ObjectPrototypeKeys THEN "[inherited function]"
  ELSE Null

\* language tags a client may send
Languages == {"python", "ruby", "constructor"}

\* a wait rounded down instead of up
CeilDiv_Floor(a, b) == a \div b

\* Math.ceil(a / b) for a > 0
CeilDiv(a, b) == (a + b - 1) \div b

\* lastCompileTime.get(socket.id) ?? 0
LastOf(s) == IF s \in DOMAIN lastCompileTime THEN lastCompileTime[s] ELSE 0

\* a slip in the comparison: a submission exactly one cooldown later is refused
RateLimited_Inclusive(s) == now - LastOf(s) <= COMPILE_COOLDOWN_MS

RateLimited(s) == now - LastOf(s) < COMPILE_COOLDOWN_MS

WaitMessage(s) ==
  << "Please wait ",
     CeilDiv(COMPILE_COOLDOWN_MS - (now - LastOf(s)), 1000),
     "s before running again." >>

\* the invocation suspended at its first axios.post
NewJob(s, roomId) ==
  [sock |-> s, roomId |-> roomId, pc |-> "calling", retries |-> MAX_RETRIES,
   calls |-> 1, failures |-> 0, wake |-> 0]

\* a handler that restarts the cooldown when it refuses a submission
CompileCode_RejectionRenews(s, roomId, language) ==
  /\ status[s] = "connected"
  /\ IF roomId \notin DOMAIN rooms
       THEN /\ out' = << >>
            /\ UNCHANGED <<lastCompileTime, lastAccepted, jobs>>
       ELSE IF RateLimited(s)
       THEN /\ out' = << Emit("codeResponse", WaitMessage(s),
                              IoTo(socketRooms, status, roomId)) >>
            /\ lastCompileTime' = MapSet(lastCompileTime, s, now)
            /\ UNCHANGED <<lastAccepted, jobs>>
       ELSE /\ lastCompileTime' = MapSet(lastCompileTime, s, now)
            /\ lastAccepted' = [lastAccepted EXCEPT ![s] = now]
            /\ IF CompilerFor(language) = Null
                 THEN /\ out' = << Emit("codeResponse",
                                        <<"Error: Unsupported language ", language>>,
                                        IoTo(socketRooms, status, roomId)) >>
                      /\ UNCHANGED jobs
                 ELSE /\ out' = << >>
                      /\ jobs' = jobs (+) SetToBag({NewJob(s, roomId)})
  /\ UNCHANGED <<client, stale, status, currentRoom, currentUser, socketRooms, rooms, now,
                 joinedLast, roomLanguage>>

\* The synchronous part of the handler, up to the first await.  The source
\* text is passed to the provider untouched and is not part of the state.
CompileCode(s, roomId, language) ==
  /\ status[s] = "connected"
  /\ IF roomId \notin DOMAIN rooms
       THEN /\ out' = << >>
            /\ UNCHANGED <<lastCompileTime, lastAccepted, jobs>>
       ELSE IF RateLimited(s)
       THEN /\ out' = << Emit("codeResponse", WaitMessage(s),
                              IoTo(socketRooms, status, roomId)) >>
            /\ UNCHANGED <<lastCompileTime, lastAccepted, jobs>>
       ELSE /\ lastCompileTime' = MapSet(lastCompileTime, s, now)
            /\ lastAccepted' = [lastAccepted EXCEPT ![s] = now]
            /\ IF CompilerFor(language) = Null
                 THEN /\ out' = << Emit("codeResponse",
                                        <<"Error: Unsupported language ", language>>,
                                        IoTo(socketRooms, status, roomId)) >>
                      /\ UNCHANGED jobs
                 ELSE /\ out' = << >>
                      /\ jobs' = jobs (+) SetToBag({NewJob(s, roomId)})
  /\ UNCHANGED <<client, stale, status, currentRoom, currentUser, socketRooms, rooms, now,
                 joinedLast, roomLanguage>>

\* --- provider responses (Wandbox compile.json) ---
\* each text field is omitted (Null) or carries text; status "0" is success
ProviderData ==
  [compiler_error : {Null, "cerr"}, program_output : {Null, "pout"},
   program_error : {Null, "perr"}, status : {"0", "1"}]

\* a normalization that takes every empty run for a successful one
Normalize_IgnoresStatus(data) ==
  LET o1 == IF ~Falsy(data.compiler_error) THEN <<data.compiler_error>> ELSE <<>>
      o2 == IF ~Falsy(data.program_output) THEN o1 \o <<data.program_output>> ELSE o1
      o3 == IF ~Falsy(data.program_error)
              THEN o2 \o (IF o2 # <<>> THEN <<"\n">> ELSE <<>>) \o <<data.program_error>>
              ELSE o2
  IN IF o3 = <<>> THEN <<"(No output)">> ELSE o3

\* Text is a sequence of pieces; "\n" is a piece of its own.
Normalize(data) ==
  LET o1 == IF ~Falsy(data.compiler_error) THEN <<data.compiler_error>> ELSE <<>>
      o2 == IF ~Falsy(data.program_output) THEN o1 \o <<data.program_output>> ELSE o1
      o3 == IF ~Falsy(data.program_error)
              THEN o2 \o (IF o2 # <<>> THEN <<"\n">> ELSE <<>>) \o <<data.program_error>>
              ELSE o2
  IN IF o3 = <<>>
       THEN (IF data.status = "0" THEN <<"(No output)">>
                                  ELSE <<"Compilation/runtime error">>)
       ELSE o3

\* error codes of a failed axios.post
ErrCodes == {"ECONNRESET", "ETIMEDOUT", "ERR_BAD_RESPONSE"}
Transient(code) == code \in {"ECONNRESET", "ETIMEDOUT"}

\* a catch block that forgets to clear the rate limit
HardFailure_KeepsLimit(j, message) ==
  /\ out' = << Emit("codeResponse", <<"Error: ", message>>,
                    IoTo(socketRooms, status, j.roomId)) >>
  /\ jobs' = jobs (-) SetToBag({j})
  /\ UNCHANGED <<rooms, lastCompileTime>>

\* a catch block that swallows the error
HardFailure_Silent(j, message) ==
  /\ lastCompileTime' = MapDelete(lastCompileTime, j.sock)
  /\ out' = << >>
  /\ jobs' = jobs (-) SetToBag({j})
  /\ UNCHANGED rooms

\* the catch block: clear the rate limit, broadcast the error
HardFailure(j, message) ==
  /\ lastCompileTime' = MapDelete(lastCompileTime, j.sock)
  /\ out' = << Emit("codeResponse", <<"Error: ", message>>,
                    IoTo(socketRooms, status, j.roomId)) >>
  /\ jobs' = jobs (-) SetToBag({j})
  /\ UNCHANGED rooms

\* a broadcast that answers the requester alone
ProviderSuccess_RequesterOnly(j, data) ==
  /\ BagIn(j, jobs)
  /\ j.pc = "calling"
  /\ IF j.roomId \in DOMAIN rooms
       THEN /\ rooms' = [rooms EXCEPT ![j.roomId].output = Normalize(data)]
            /\ out' = << Emit("codeResponse", Normalize(data), {j.sock}) >>
            /\ jobs' = jobs (-) SetToBag({j})
            /\ UNCHANGED lastCompileTime
       ELSE HardFailure(j, "Cannot set properties of undefined")
  /\ stale' = StaleAfterReturn(jobs')
  /\ UNCHANGED <<client, status, currentRoom, currentUser, socketRooms, now,
                 joinedLast, lastAccepted, roomLanguage>>

\* axios.post resolves: normalise, record on the room, broadcast.  When the
\* room is gone rooms.get(roomId) is undefined and the assignment throws a
\* TypeError inside the try block, which the catch block handles.
ProviderSuccess(j, data) ==
  /\ BagIn(j, jobs)
  /\ j.pc = "calling"
  /\ IF j.roomId \in DOMAIN rooms
       THEN /\ rooms' = [rooms EXCEPT ![j.roomId].output = Normalize(data)]
            /\ out' = << Emit("codeResponse", Normalize(data),
                              IoTo(socketRooms, status, j.roomId)) >>
            /\ jobs' = jobs (-) SetToBag({j})
            /\ UNCHANGED lastCompileTime
       ELSE HardFailure(j, "Cannot set properties of undefined")
  /\ stale' = StaleAfterReturn(jobs')
  /\ UNCHANGED <<client, status, currentRoom, currentUser, socketRooms, now,
                 joinedLast, lastAccepted, roomLanguage>>

\* axios.post rejects with error code `code`
ProviderFailure(j, code) ==
  /\ BagIn(j, jobs)
  /\ j.pc = "calling"
  /\ IF j.retries = 0 \/ ~Transient(code)
       THEN /\ HardFailure(j, code)
       ELSE /\ jobs' = (jobs (-) SetToBag({j})) (+)
                       SetToBag({[j EXCEPT !.retries = @ - 1, !.pc = "delay",
                                           !.failures = @ + 1,
                                           !.wake = now + RETRY_DELAY_MS]})
            /\ out' = << >>
            /\ UNCHANGED <<rooms, lastCompileTime>>
  /\ stale' = StaleAfterReturn(jobs')
  /\ UNCHANGED <<client, status, currentRoom, currentUser, socketRooms, now,
                 joinedLast, lastAccepted, roomLanguage>>

\* the 1 s setTimeout of the retry loop fires: next iteration, next axios.post
RetryTimer(j) ==
  /\ BagIn(j, jobs)
  /\ j.pc = "delay"
  /\ now >= j.wake
  /\ jobs' = (jobs (-) SetToBag({j})) (+)
             SetToBag({[j EXCEPT !.pc = "calling", !.calls = @ + 1, !.wake = 0]})
  /\ out' = << >>
  /\ UNCHANGED <<client, stale, status, currentRoom, currentUser, socketRooms, rooms,
                 lastCompileTime, now, joinedLast, lastAccepted, roomLanguage>>

\* ----------------------------------------------------------------- clock
Tick ==
  /\ \E t \in Instants : t > now /\ now' = t
  /\ out' = << >>
  /\ UNCHANGED <<client, stale, status, currentRoom, currentUser, socketRooms, rooms,
                 lastCompileTime, jobs, joinedLast, lastAccepted, roomLanguage>>

\* ---------------------------------------------------------------- browser
\* A timer is the instant from which its callback may run.
\* App.jsx: each userTyping event shows the name and starts a timer; nothing
\* is cancelled.
HandleTyping(c, user) ==
  /\ client' = [client EXCEPT
       ![c].typingUser = user,
       ![c].typingTimers = @ (+) SetToBag({now + TYPING_EXPIRY_MS}),
       ![c].typingAt = now]
  /\ UNCHANGED <<status, currentRoom, currentUser, socketRooms, rooms,
                 lastCompileTime, now, jobs, out, joinedLast, lastAccepted,
                 roomLanguage, stale>>

\* part_000: the handle of the pending timer is kept in typingTimeoutRef and
\* cleared before the next one is started.
HandleTypingRef(c, user) ==
  /\ client' = [client EXCEPT
       ![c].typingUser = user,
       ![c].typingTimers = SetToBag({now + TYPING_EXPIRY_MS}),
       ![c].typingAt = now]
  /\ UNCHANGED <<status, currentRoom, currentUser, socketRooms, rooms,
                 lastCompileTime, now, jobs, out, joinedLast, lastAccepted,
                 roomLanguage, stale>>

\* the timer callback () => setTypingUser(null)
TypingExpiry(c, t) ==
  /\ BagIn(t, client[c].typingTimers)
  /\ now >= t
  /\ client' = [client EXCEPT
       ![c].typingUser = Null,
       ![c].typingTimers = @ (-) SetToBag({t})]
  /\ UNCHANGED <<status, currentRoom, currentUser, socketRooms, rooms,
                 lastCompileTime, now, jobs, out, joinedLast, lastAccepted,
                 roomLanguage, stale>>

\* App.jsx: each toast event shows the message and starts a timer.
HandleToast(c, message) ==
  /\ client' = [client EXCEPT
       ![c].toast = message,
       ![c].toastTimers = @ (+) SetToBag({now + TOAST_EXPIRY_MS}),
       ![c].toastAt = now]
  /\ UNCHANGED <<status, currentRoom, currentUser, socketRooms, rooms,
                 lastCompileTime, now, jobs, out, joinedLast, lastAccepted,
                 roomLanguage, stale>>

\* part_000: clearTimeout(toastTimeoutRef.current) first.
HandleToastRef(c, message) ==
  /\ client' = [client EXCEPT
       ![c].toast = message,
       ![c].toastTimers = SetToBag({now + TOAST_EXPIRY_MS}),
       ![c].toastAt = now]
  /\ UNCHANGED <<status, currentRoom, currentUser, socketRooms, rooms,
                 lastCompileTime, now, jobs, out, joinedLast, lastAccepted,
                 roomLanguage, stale>>

\* the timer callback () => setToast("")
ToastExpiry(c, t) ==
  /\ BagIn(t, client[c].toastTimers)
  /\ now >= t
  /\ client' = [client EXCEPT
       ![c].toast = << >>,
       ![c].toastTimers = @ (-) SetToBag({t})]
  /\ UNCHANGED <<status, currentRoom, currentUser, socketRooms, rooms,
                 lastCompileTime, now, jobs, out, joinedLast, lastAccepted,
                 roomLanguage, stale>>

\* ------------------------------------------------------------------ Next
\* Inputs of the full system: one room id besides the empty one, two names,
\* one text, and the provider replies that carry no diagnostics.
SpecRoomIds == {"r1", Empty}
SpecUserNames == UserNames
SpecCodes == {"print(1)"}
SpecReplies == {d \in ProviderData : d.compiler_error = Null /\ d.program_error = Null}

Next ==
  \/ \E s \in Conns : Connect(s)
  \/ \E s \in Conns, r \in SpecRoomIds, u \in SpecUserNames : Join(s, r, u)
  \/ \E s \in Conns : LeaveRoom(s)
  \/ \E s \in Conns : Disconnect(s)
  \/ \E s \in Conns, r \in SpecRoomIds, c \in SpecCodes : CodeChange(s, r, c)
  \/ \E s \in Conns, r \in SpecRoomIds, u \in SpecUserNames : Typing(s, r, u)
  \/ \E s \in Conns, r \in SpecRoomIds, l \in Languages : LanguageChange(s, r, l)
  \/ \E s \in Conns, r \in SpecRoomIds, l \in Languages :
       \* only a submission that starts a provider call counts against MaxJobs
       /\ \/ BagCardinality(jobs) < MaxJobs
          \/ RateLimited(s)
          \/ Falsy(CompilerFor(l))
       /\ CompileCode(s, r, l)
  \/ \E j \in BagToSet(jobs), d \in SpecReplies : ProviderSuccess(j, d)
  \/ \E j \in BagToSet(jobs), e \in ErrCodes : ProviderFailure(j, e)
  \/ \E j \in BagToSet(jobs) : RetryTimer(j)
  \/ Tick

Spec == Init /\ [][Next]_vars

\* The connection lifecycle alone, with the join payloads the shipped client
\* sends: a non-empty room id and a non-empty name.
NextRooms ==
  \/ \E s \in Conns : Connect(s)
  \/ \E s \in Conns, r \in RoomIds, u \in UserNames : Join(s, r, u)
  \/ \E s \in Conns : LeaveRoom(s)
  \/ \E s \in Conns : Disconnect(s)

SpecRooms == Init /\ [][NextRooms]_vars

\* The connection lifecycle with the join payloads any client can send: the
\* server does not validate them, so the empty room id and name are included.
RawRoomIds == {"r1", Empty}
RawUserNames == {"alice", Empty}

NextRaw ==
  \/ \E s \in Conns : Connect(s)
  \/ \E s \in Conns, r \in RawRoomIds, u \in RawUserNames : Join(s, r, u)
  \/ \E s \in Conns : LeaveRoom(s)
  \/ \E s \in Conns : Disconnect(s)

SpecRaw == Init /\ [][NextRaw]_vars

\* The execution gateway with the connection lifecycle around it.  The
\* handlers left out (codeChange, typing, languageChange) touch neither the
\* rate-limit map, nor the pending calls, nor the set of registered rooms.
GatewayRoomIds == {"r1"}
GatewayUserNames == {"alice"}
GatewayReplies == {d \in SpecReplies : d.status = "0"}

NextGateway ==
  \/ \E s \in Conns : Connect(s)
  \/ \E s \in Conns, r \in GatewayRoomIds, u \in GatewayUserNames : Join(s, r, u)
  \/ \E s \in Conns : LeaveRoom(s)
  \/ \E s \in Conns : Disconnect(s)
  \/ \E s \in Conns, r \in GatewayRoomIds, l \in Languages :
       \* only a submission that starts a provider call counts against MaxJobs
       /\ \/ BagCardinality(jobs) < MaxJobs
          \/ RateLimited(s)
          \/ Falsy(CompilerFor(l))
       /\ CompileCode(s, r, l)
  \/ \E j \in BagToSet(jobs), d \in GatewayReplies : ProviderSuccess(j, d)
  \/ \E j \in BagToSet(jobs), e \in ErrCodes : ProviderFailure(j, e)
  \/ \E j \in BagToSet(jobs) : RetryTimer(j)
  \/ Tick

SpecGateway == Init /\ [][NextGateway]_vars

\* The same gateway, with the history of the submissions whose room is
\* deleted and registered again while their call is in flight.
ReuseRoomIds == GatewayRoomIds
InitReuse == InitState(ReuseRoomIds)
SpecReuse == InitReuse /\ [][NextGateway]_vars

\* The shared editor: the connection lifecycle with the document, typing and
\* language events.  Two connections may pick the same name, as the server
\* allows; the events carry the room id the client puts in the payload.
EditRoomIds == RoomIds
EditUserNames == UserNames
EditCodes == Codes
EditLanguages == {"python"}

NextEditing ==
  \/ \E s \in Conns : Connect(s)
  \/ \E s \in Conns, r \in EditRoomIds, u \in EditUserNames : Join(s, r, u)
  \/ \E s \in Conns : LeaveRoom(s)
  \/ \E s \in Conns : Disconnect(s)
  \/ \E s \in Conns, r \in EditRoomIds, c \in EditCodes : CodeChange(s, r, c)
  \/ \E s \in Conns, r \in EditRoomIds, u \in EditUserNames : Typing(s, r, u)
  \/ \E s \in Conns, r \in EditRoomIds, l \in EditLanguages : LanguageChange(s, r, l)

SpecEditing == Init /\ [][NextEditing]_vars

\* The normalization of provider replies: runs of one room, answered with
\* every combination of present and absent reply fields and either status.
NormalizeRoomIds == {"r1"}
NormalizeUserNames == {"alice"}
NormalizeLanguages == {"python"}

NextNormalize ==
  \/ \E s \in Conns : Connect(s)
  \/ \E s \in Conns, r \in NormalizeRoomIds, u \in NormalizeUserNames : Join(s, r, u)
  \/ \E s \in Conns, r \in NormalizeRoomIds, l \in NormalizeLanguages :
       /\ \/ BagCardinality(jobs) < MaxJobs
          \/ RateLimited(s)
       /\ CompileCode(s, r, l)
  \/ \E j \in BagToSet(jobs), d \in ProviderData : ProviderSuccess(j, d)
  \/ Tick

SpecNormalize == Init /\ [][NextNormalize]_vars

\* One browser receiving userTyping and toast events while the clock runs.
\* SpecBrowser runs the handlers of App.jsx, SpecBrowserRef those of part_000.
BrowserConns == {"s1"}
TypingNames == {"alice", "bob"}
ToastTexts == {<<"alice", " joined the room">>, <<"alice", " left the room">>}

NextBrowser ==
  \/ \E c \in BrowserConns, u \in TypingNames :
       /\ BagCardinality(client[c].typingTimers) < MaxTimers
       /\ HandleTyping(c, u)
  \/ \E c \in BrowserConns : \E t \in BagToSet(client[c].typingTimers) :
       TypingExpiry(c, t)
  \/ \E c \in BrowserConns, m \in ToastTexts :
       /\ BagCardinality(client[c].toastTimers) < MaxTimers
       /\ HandleToast(c, m)
  \/ \E c \in BrowserConns : \E t \in BagToSet(client[c].toastTimers) :
       ToastExpiry(c, t)
  \/ Tick

SpecBrowser == Init /\ [][NextBrowser]_vars

NextBrowserRef ==
  \/ \E c \in BrowserConns, u \in TypingNames : HandleTypingRef(c, u)
  \/ \E c \in BrowserConns : \E t \in BagToSet(client[c].typingTimers) :
       TypingExpiry(c, t)
  \/ \E c \in BrowserConns, m \in ToastTexts : HandleToastRef(c, m)
  \/ \E c \in BrowserConns : \E t \in BagToSet(client[c].toastTimers) :
       ToastExpiry(c, t)
  \/ Tick

SpecBrowserRef == Init /\ [][NextBrowserRef]_vars

\* Every server handler next to the execution gateway: the events of two
\* connections and two rooms while provider calls and retry delays are pending.
\* The first connection joins room r1 and submits there; the second moves
\* between both rooms; every event may name either room.
ConcurrentRoomIds == RoomIds
ConcurrentUserNames == {"alice"}
ConcurrentCodes == {"print(1)"}
ConcurrentLanguages == {"python"}
ConcurrentReplies == {d \in GatewayReplies : d.program_output # Null}

NextConcurrent ==
  \/ \E s \in Conns : Connect(s)
  \/ \E s \in Conns, r \in ConcurrentRoomIds, u \in ConcurrentUserNames :
       /\ s = "s1" => r = "r1"
       /\ Join(s, r, u)
  \/ \E s \in Conns : LeaveRoom(s)
  \/ \E s \in Conns : Disconnect(s)
  \/ \E s \in Conns, r \in ConcurrentRoomIds, c \in ConcurrentCodes :
       CodeChange(s, r, c)
  \/ \E s \in Conns, r \in ConcurrentRoomIds, u \in ConcurrentUserNames :
       Typing(s, r, u)
  \/ \E s \in Conns, r \in ConcurrentRoomIds, l \in ConcurrentLanguages :
       LanguageChange(s, r, l)
  \/ \E s \in {"s1"}, r \in {"r1"}, l \in ConcurrentLanguages :
       /\ \/ BagCardinality(jobs) < MaxJobs
          \/ RateLimited(s)
       /\ CompileCode(s, r, l)
  \/ \E j \in BagToSet(jobs), d \in ConcurrentReplies : ProviderSuccess(j, d)
  \/ \E j \in BagToSet(jobs), e \in ErrCodes : ProviderFailure(j, e)
  \/ \E j \in BagToSet(jobs) : RetryTimer(j)
  \/ Tick

SpecConcurrent == Init /\ [][NextConcurrent]_vars

\* The execution gateway under fairness: every pending provider call
\* eventually returns or fails, every retry delay eventually elapses and the
\* clock moves on.  A connection submits again only once its previous
\* submission has been answered, so that a pending call is identified by its
\* connection; a call is not failed into a retry delay that would end past
\* the last instant of the clock.
LiveRoomIds == {"r1"}
LiveUserNames == {"alice"}
LiveLanguages == {"python", "ruby"}
LiveReplies == ConcurrentReplies
Horizon == CHOOSE t \in Instants : \A u \in Instants : u <= t

HasJob(s) == \E j \in BagToSet(jobs) : j.sock = s

\* the provider answers the pending call of connection s
ProviderReturns(s) ==
  \E j \in BagToSet(jobs) :
    /\ j.sock = s
    /\ \/ \E d \in LiveReplies : ProviderSuccess(j, d)
       \/ \E e \in ErrCodes :
            /\ (Transient(e) /\ j.retries > 0) => now + RETRY_DELAY_MS <= Horizon
            /\ ProviderFailure(j, e)

\* the retry delay of connection s elapses
DelayElapses(s) == \E j \in BagToSet(jobs) : j.sock = s /\ RetryTimer(j)

NextLive ==
  \/ \E s \in Conns : Connect(s)
  \/ \E s \in Conns, r \in LiveRoomIds, u \in LiveUserNames : Join(s, r, u)
  \/ \E s \in Conns : LeaveRoom(s)
  \/ \E s \in Conns : Disconnect(s)
  \/ \E s \in Conns, r \in LiveRoomIds, l \in LiveLanguages :
       /\ \/ BagCardinality(jobs) < MaxJobs /\ ~HasJob(s)
          \/ RateLimited(s)
          \/ Falsy(CompilerFor(l))
       /\ CompileCode(s, r, l)
  \/ \E s \in Conns : ProviderReturns(s)
  \/ \E s \in Conns : DelayElapses(s)
  \/ Tick

SpecLive ==
  /\ Init /\ [][NextLive]_vars
  /\ \A s \in Conns : WF_vars(ProviderReturns(s)) /\ WF_vars(DelayElapses(s))
  /\ WF_vars(Tick)

\* Submissions that overlap: a connection may submit again, a cooldown
\* later, while its earlier provider call has not returned, so one more call
\* than elsewhere may be pending.
OverlapRoomIds == {"r1"}
OverlapUserNames == {"alice"}
OverlapLanguages == {"python", "ruby"}
OverlapReplies == ConcurrentReplies
MaxOverlap == MaxJobs + 1

NextOverlap ==
  \/ \E s \in Conns : Connect(s)
  \/ \E s \in Conns, r \in OverlapRoomIds, u \in OverlapUserNames : Join(s, r, u)
  \/ \E s \in Conns, r \in OverlapRoomIds, l \in OverlapLanguages :
       /\ \/ BagCardinality(jobs) < MaxOverlap
          \/ RateLimited(s)
          \/ Falsy(CompilerFor(l))
       /\ CompileCode(s, r, l)
  \/ \E j \in BagToSet(jobs), d \in OverlapReplies : ProviderSuccess(j, d)
  \/ \E j \in BagToSet(jobs), e \in ErrCodes : ProviderFailure(j, e)
  \/ \E j \in BagToSet(jobs) : RetryTimer(j)
  \/ Tick

SpecOverlap == Init /\ [][NextOverlap]_vars

TypeOK ==
  /\ status \in [Conns -> {"new", "connected", "disconnected"}]
  /\ DOMAIN rooms \subseteq RoomIdInputs
  /\ DOMAIN lastCompileTime \subseteq Conns
  /\ now \in Instants
  /\ BagCardinality(jobs) <= MaxOverlap

\* ======================================================== room registry
Connected(c) == status[c] = "connected"

\* C1: in every reachable state no room present in the registry has an
\* empty member set.
C1_NoEmptyRoom ==
  \A r \in DOMAIN rooms : rooms[r].users # {}

\* C2: in every reachable state, the current room id of every live
\* connection, when it is not null, names a room present in the registry.
C2_SessionRoomExists ==
  \A c \in Conns :
    (Connected(c) /\ currentRoom[c] # Null) => currentRoom[c] \in DOMAIN rooms

\* C3: in every reachable state, a name N is in room R's member set if and
\* only if some live connection has current room R and current name N.
C3_MemberIffClaimed ==
  \A r \in RoomIdInputs, n \in UserNameInputs :
    (r \in DOMAIN rooms /\ n \in rooms[r].users)
      <=> (\E c \in Conns : Connected(c) /\ currentRoom[c] = r /\ currentUser[c] = n)

\* C4: a connection is subscribed to no room but its current one, and a join
\* sent while joined to another room leaves the connection neither subscribed
\* to the prior room nor listed in its member set.
C4_RejoinLeavesPrior ==
  [][ \A s \in Conns, r \in RoomIdInputs, u \in UserNameInputs :
        (Join(s, r, u) /\ currentRoom[s] # Null /\ currentRoom[s] # r)
          => /\ socketRooms'[s] = {r}
             /\ currentRoom[s] \notin socketRooms'[s]
             /\ currentRoom[s] \in DOMAIN rooms'
                  => currentUser[s] \notin rooms'[currentRoom[s]].users ]_vars

\* C5: every room's member set equals the set of names whose most recent
\* action on that room was a join, and the room is absent from the registry
\* if and only if that set is empty.
C5_MembersAreLatestJoiners ==
  \A r \in RoomIdInputs :
    /\ (r \notin DOMAIN rooms) <=> (joinedLast[r] = {})
    /\ r \in DOMAIN rooms => rooms[r].users = joinedLast[r]

\* =================================================== execution gateway
\* the emissions of the last step that are codeResponse events
IsResponse(e) == e.ev = "codeResponse"
TryLater(e) == IsResponse(e) /\ e.payload[1] = "Please wait "
ErrorShaped(e) == IsResponse(e) /\ e.payload[1] = "Error: "
Unsupported(e) == IsResponse(e) /\ e.payload[1] = "Error: Unsupported language "

\* the live connections whose session is bound to room r
BoundTo(r) == {c \in Conns : Connected(c) /\ currentRoom[c] = r}

\* the step starts a provider call for connection s and room r
StartsCall(s, r) == jobs' = jobs (+) SetToBag({NewJob(s, r)})

\* C6: once a connection's disconnect handler has run the rate-limit map
\* holds no entry for that connection, and none reappears.
C6_NoEntryAfterDisconnect ==
  \A c \in Conns : status[c] = "disconnected" => c \notin DOMAIN lastCompileTime

\* C7 (as stated): a submission arriving less than the cooldown after the
\* connection's previous accepted submission makes no provider call and is
\* answered with a try-later message; one arriving a cooldown or more after
\* it is accepted and makes a provider call.
C7_CooldownSinceAccepted ==
  [][ \A s \in Conns, r \in GatewayRoomIds,
         l \in Languages \cap DOMAIN WANDBOX_COMPILERS :
        (r \in DOMAIN rooms /\ lastAccepted[s] # 0 /\ CompileCode(s, r, l))
          => IF now - lastAccepted[s] < COMPILE_COOLDOWN_MS
               THEN jobs' = jobs /\ Len(out') = 1 /\ TryLater(out'[1])
               ELSE StartsCall(s, r) /\ lastAccepted'[s] = now ]_vars

\* C7 (amended): the same, unless a hard failure of one of the connection's
\* submissions has cleared its rate-limit entry since the previous accepted
\* submission, in which case the submission is accepted at once.
C7_CooldownUnlessCleared ==
  [][ \A s \in Conns, r \in GatewayRoomIds,
         l \in Languages \cap DOMAIN WANDBOX_COMPILERS :
        (r \in DOMAIN rooms /\ lastAccepted[s] # 0 /\ CompileCode(s, r, l))
          => IF /\ now - lastAccepted[s] < COMPILE_COOLDOWN_MS
                /\ s \in DOMAIN lastCompileTime
               THEN /\ jobs' = jobs
                    /\ Len(out') = 1 /\ TryLater(out'[1])
                    /\ out'[1].to = IoTo(socketRooms, status, r)
                    /\ UNCHANGED <<lastCompileTime, lastAccepted>>
               ELSE StartsCall(s, r) /\ lastAccepted'[s] = now ]_vars

\* a second submission 500 ms after an accepted one whose provider call is
\* still in flight has just been refused
C7_Witness ==
  \E s \in Conns :
    /\ lastAccepted[s] # 0 /\ now - lastAccepted[s] = 500
    /\ s \in DOMAIN lastCompileTime
    /\ Len(out) = 1 /\ TryLater(out[1]) /\ s \in out[1].to
    /\ jobs = SetToBag({NewJob(s, "r1")})

\* C8: the provider is called again only after a transient failure and at
\* most 3 times; two transient failures then a success give exactly 3 calls
\* and the normalized result as the response; a non-transient failure of the
\* first call ends the submission after exactly 1 call.
C8_RetryPolicy ==
  [][ \A j \in BagToSet(jobs) :
        /\ j.calls <= MAX_RETRIES + 1
        /\ RetryTimer(j) => j.failures = j.calls
        /\ \A d \in GatewayReplies :
             (j.failures = 2 /\ ProviderSuccess(j, d))
               => /\ j.calls = 3
                  /\ out' = << Emit("codeResponse", Normalize(d),
                                    IoTo(socketRooms, status, j.roomId)) >>
        /\ \A e \in ErrCodes :
             (~Transient(e) /\ j.failures = 0 /\ ProviderFailure(j, e))
               => j.calls = 1 /\ jobs' = jobs (-) SetToBag({j}) ]_vars

\* C9: when a submission ends in a hard failure (a non-transient error, or a
\* transient one after two retries) one error-shaped codeResponse goes to
\* every connection of the room and the submitter's rate-limit entry is
\* absent afterwards; it stays absent until the connection submits again,
\* and that submission is accepted, not refused.
C9_HardFailureClearsLimit ==
  [][ /\ \A j \in BagToSet(jobs), e \in ErrCodes :
           ((~Transient(e) \/ j.failures = MAX_RETRIES) /\ ProviderFailure(j, e))
             => /\ Len(out') = 1 /\ ErrorShaped(out'[1])
                /\ BoundTo(j.roomId) \subseteq out'[1].to
                /\ j.sock \notin DOMAIN lastCompileTime'
                /\ jobs' = jobs (-) SetToBag({j})
      /\ \A s \in Conns, r \in GatewayRoomIds, l \in Languages :
           (r \in DOMAIN rooms /\ s \notin DOMAIN lastCompileTime
              /\ CompileCode(s, r, l))
             => /\ s \in DOMAIN lastCompileTime' /\ lastCompileTime'[s] = now
                /\ ~(Len(out') = 1 /\ TryLater(out'[1]))
      /\ \A s \in Conns :
           (s \notin DOMAIN lastCompileTime /\ s \in DOMAIN lastCompileTime')
             => \E r \in GatewayRoomIds, l \in Languages : CompileCode(s, r, l) ]_vars

\* a hard failure has just been broadcast to the submitter, who is inside
\* the cooldown window of the failed run and has no rate-limit entry
C9_Witness ==
  \E s \in Conns :
    /\ Connected(s) /\ currentRoom[s] = "r1"
    /\ Len(out) = 1 /\ ErrorShaped(out[1]) /\ out[1].payload[2] \in ErrCodes
    /\ s \in out[1].to
    /\ lastAccepted[s] # 0 /\ now - lastAccepted[s] < COMPILE_COOLDOWN_MS
    /\ s \notin DOMAIN lastCompileTime
    /\ jobs = EmptyBag

\* C10: a submission whose language tag is not in the language table makes
\* no provider call and is answered with an unsupported-language response.
C10_UnknownLanguageNoCall ==
  [][ \A s \in Conns, r \in GatewayRoomIds, l \in Languages :
        (r \in DOMAIN rooms /\ ~RateLimited(s)
           /\ l \notin DOMAIN WANDBOX_COMPILERS /\ CompileCode(s, r, l))
          => /\ jobs' = jobs
             /\ Len(out') = 1 /\ Unsupported(out'[1]) ]_vars

\* C11: when the provider call of an accepted submission succeeds and the
\* room is registered, the room's last output becomes the normalized output
\* and one codeResponse carrying that output goes to every connection of the
\* room, the requester or not.
C11_SuccessRecordedAndBroadcast ==
  [][ \A j \in BagToSet(jobs), d \in GatewayReplies :
        (j.roomId \in DOMAIN rooms /\ ProviderSuccess(j, d))
          => /\ rooms'[j.roomId].output = Normalize(d)
             /\ Len(out') = 1 /\ IsResponse(out'[1])
             /\ out'[1].payload = Normalize(d)
             /\ BoundTo(j.roomId) \subseteq out'[1].to
             /\ jobs' = jobs (-) SetToBag({j}) ]_vars

\* a run has just succeeded in a room with two connections: both were sent
\* the output now recorded on the room
C11_Witness ==
  /\ BoundTo("r1") = Conns
  /\ jobs = EmptyBag
  /\ Len(out) = 1 /\ IsResponse(out[1])
  /\ out[1].payload = <<"pout">> /\ out[1].to = Conns
  /\ "r1" \in DOMAIN rooms /\ rooms["r1"].output = <<"pout">>

\* ========================================================= shared editor
\* C12: a room's document is the text of the codeChange most recently
\* applied to it since the room was created, the default text if there was
\* none: a room enters the registry with the default text, a codeChange for
\* a registered room makes its text the document whatever the document was
\* and whoever wrote it, and no other step changes the document.
C12_DocumentIsLatestChange ==
  [][ /\ \A r \in DOMAIN rooms' :
           r \notin DOMAIN rooms => rooms'[r].code = DefaultCode
      /\ \A s \in Conns, r \in EditRoomIds, c \in EditCodes :
           (r \in DOMAIN rooms /\ CodeChange(s, r, c))
             => /\ rooms'[r].code = c
                /\ \A q \in DOMAIN rooms \ {r} :
                     q \in DOMAIN rooms' /\ rooms'[q].code = rooms[q].code
      /\ \A r \in DOMAIN rooms :
           (r \in DOMAIN rooms' /\ rooms'[r].code # rooms[r].code)
             => \E s \in Conns, c \in EditCodes : CodeChange(s, r, c) ]_vars

\* both connections are in room r1 and the document is the text the second
\* connection has just written over the first connection's
C12_Witness ==
  /\ BoundTo("r1") = Conns
  /\ "r2" \in DOMAIN rooms /\ rooms["r2"].code = "print(1)"
  /\ rooms["r1"].code = "print(2)"
  /\ out = << Emit("codeUpdate", "print(2)", {"s1"}) >>

\* C13: on join the codeUpdate carrying the room's current document goes to
\* the joining connection and to no other, the userJoined that follows
\* carries the complete member set after the addition and goes to every
\* connection of the room, the joiner included; a join to an unregistered
\* room id creates the room with members {name} and the default document.
C13_JoinSnapshotAndRoster ==
  [][ \A s \in Conns, r \in EditRoomIds, u \in EditUserNames :
        (currentRoom'[s] = r /\ currentUser'[s] = u /\ Join(s, r, u))
          => LET n == Len(out') IN
             /\ n >= 3
             /\ out'[n - 1] = Emit("codeUpdate", rooms'[r].code, {s})
             /\ \A i \in 1..n : out'[i].ev = "codeUpdate" => out'[i].to = {s}
             /\ out'[n].ev = "userJoined"
             /\ out'[n].payload = rooms'[r].users /\ u \in rooms'[r].users
             /\ (BoundTo(r))' \subseteq out'[n].to /\ s \in out'[n].to
             /\ IF r \in DOMAIN rooms
                  THEN rooms'[r].code = rooms[r].code
                  ELSE rooms'[r].users = {u} /\ rooms'[r].code = DefaultCode ]_vars

\* the second connection has just joined room r1, whose document the first
\* had edited: the document went to the joiner alone, the roster to both
C13_Witness ==
  /\ BoundTo("r1") = Conns
  /\ Len(out) = 3
  /\ out[2] = Emit("codeUpdate", "print(1)", {"s2"})
  /\ out[3] = Emit("userJoined", {"alice", "bob"}, Conns)

\* C14: a connection that joins a room to which a languageChange was applied
\* is sent the room's current language tag with its join snapshot.
C14_JoinSnapshotHasLanguage ==
  [][ \A s \in Conns, r \in EditRoomIds, u \in EditUserNames :
        (r \in DOMAIN rooms /\ roomLanguage[r] # Null /\ Join(s, r, u))
          => \E i \in 1..Len(out') :
               /\ out'[i].ev = "languageUpdate"
               /\ out'[i].payload = roomLanguage[r]
               /\ s \in out'[i].to ]_vars

\* C15: a codeChange for a registered room sets the room's document and
\* sends one codeUpdate with the new text to every other connection of the
\* room and never to the sending connection.
C15_CodeChangeToOthersOnly ==
  [][ \A s \in Conns, r \in EditRoomIds, c \in EditCodes :
        (r \in DOMAIN rooms /\ CodeChange(s, r, c))
          => /\ rooms'[r].code = c
             /\ Len(out') = 1 /\ out'[1].ev = "codeUpdate" /\ out'[1].payload = c
             /\ (BoundTo(r) \ {s}) \subseteq out'[1].to
             /\ s \notin out'[1].to ]_vars

\* the first of two connections in room r1 has just changed the document:
\* the update went to the second connection only
C15_Witness ==
  /\ BoundTo("r1") = Conns
  /\ rooms["r1"].code = "print(1)"
  /\ out = << Emit("codeUpdate", "print(1)", {"s2"}) >>

\* C16: a codeChange, languageChange, typing or compileCode event naming a
\* room id that is not in the registry is dropped: room, session and
\* rate-limit state stay as they are and no event reaches any connection.
C16_UnknownRoomDropped ==
  [][ \A s \in Conns, r \in EditRoomIds :
        (/\ r \notin DOMAIN rooms
         /\ \/ \E c \in EditCodes : CodeChange(s, r, c)
            \/ \E u \in EditUserNames : Typing(s, r, u)
            \/ \E l \in EditLanguages : LanguageChange(s, r, l)
            \/ \E l \in Languages : CompileCode(s, r, l))
          => /\ UNCHANGED <<status, currentRoom, currentUser, socketRooms,
                            rooms, lastCompileTime, jobs>>
             /\ \A i \in 1..Len(out') : out'[i].to = {} ]_vars

\* C17: when the room of an accepted submission has left the registry by
\* the time its provider call succeeds, the result is dropped: nothing is
\* emitted, no error is reported and the rate-limit map stays as it was.
C17_LateSuccessDropped ==
  [][ \A j \in BagToSet(jobs), d \in GatewayReplies :
        (j.roomId \notin DOMAIN rooms /\ ProviderSuccess(j, d))
          => /\ out' = << >>
             /\ lastCompileTime' = lastCompileTime ]_vars

\* ==================================================== leaving a room
\* C18: when a joined connection leaves or disconnects, every remaining
\* connection of its room is sent a notice and a userJoined carrying the
\* member set after the removal, and the room does not stay registered with
\* an empty member set.
C18_LeaveNotifiesRemaining ==
  [][ \A s \in Conns :
        (currentRoom[s] # Null /\ (LeaveRoom(s) \/ Disconnect(s)))
          => LET r == currentRoom[s]
                 left == IF r \in DOMAIN rooms' THEN rooms'[r].users ELSE {}
             IN /\ \A c \in BoundTo(r) \ {s} :
                     /\ \E i \in 1..Len(out') :
                          out'[i].ev = "toast" /\ c \in out'[i].to
                     /\ \E i \in 1..Len(out') :
                          /\ out'[i].ev = "userJoined" /\ c \in out'[i].to
                          /\ out'[i].payload = left
                /\ r \in DOMAIN rooms' => rooms'[r].users # {} ]_vars

\* C19: after the leaveRoom or disconnect handler has run for a joined
\* connection its session binding is cleared and it is no longer subscribed
\* to the room, also when the room had already left the registry.
C19_LeaveClearsBinding ==
  [][ \A s \in Conns :
        (currentRoom[s] # Null /\ (LeaveRoom(s) \/ Disconnect(s)))
          => /\ currentRoom'[s] = Null /\ currentUser'[s] = Null
             /\ currentRoom[s] \notin socketRooms'[s] ]_vars

\* C20: leaveRoom clears the leaving connection's rate-limit entry, so that
\* its next submission after a re-join is accepted inside the cooldown
\* window of the earlier one.
C20_LeaveRoomClearsLimit ==
  [][ \A s \in Conns :
        (currentRoom[s] # Null /\ LeaveRoom(s))
          => s \notin DOMAIN lastCompileTime' ]_vars

\* ================================================= validation and events
\* C21: a join whose roomId or userName is missing or empty is ignored: no
\* room is created, no member is added, the session binding and the
\* subscriptions stay as they are and nothing is emitted.
C21_EmptyJoinIgnored ==
  [][ \A s \in Conns, r \in RawRoomIds, u \in RawUserNames :
        ((Falsy(r) \/ Falsy(u)) /\ Join(s, r, u))
          => /\ UNCHANGED <<rooms, currentRoom, currentUser, socketRooms>>
             /\ out' = << >> ]_vars

\* C22: a languageChange for a registered room records the tag on the room
\* and sends one languageUpdate with the tag to every connection of the
\* room, the sender included.
C22_LanguageRecordedAndBroadcast ==
  [][ \A s \in Conns, r \in EditRoomIds, l \in EditLanguages :
        (r \in DOMAIN rooms /\ LanguageChange(s, r, l))
          => /\ "language" \in DOMAIN rooms'[r] /\ rooms'[r].language = l
             /\ Len(out') = 1 /\ out'[1].ev = "languageUpdate"
             /\ out'[1].payload = l
             /\ BoundTo(r) \subseteq out'[1].to ]_vars

\* C23: a typing event sends one userTyping with the name to every other
\* connection of the room and never to the sending connection.
C23_TypingToOthersOnly ==
  [][ \A s \in Conns, r \in EditRoomIds, u \in EditUserNames :
        Typing(s, r, u)
          => /\ Len(out') = 1 /\ out'[1].ev = "userTyping" /\ out'[1].payload = u
             /\ (BoundTo(r) \ {s}) \subseteq out'[1].to
             /\ s \notin out'[1].to
             /\ UNCHANGED <<rooms, currentRoom, currentUser, socketRooms>> ]_vars

\* the second of two connections in room r2 has just sent a typing event:
\* it went to the first connection only
C23_Witness ==
  /\ BoundTo("r2") = Conns
  /\ currentUser["s2"] = "bob"
  /\ out = << Emit("userTyping", "bob", {"s1"}) >>

\* ============================================== timers and concurrency
\* C24: for the typing indicator and for the toast alike, at most one
\* expiry is pending, and an expiry never clears what the latest event set
\* before the full window after that event has passed.
C24_NewerEventCancelsExpiry ==
  [][ \A c \in BrowserConns :
        /\ BagCardinality(client'[c].typingTimers) <= 1
        /\ BagCardinality(client'[c].toastTimers) <= 1
        /\ \A t \in BagToSet(client[c].typingTimers) :
             (client[c].typingUser # Null /\ TypingExpiry(c, t))
               => now >= client[c].typingAt + TYPING_EXPIRY_MS
        /\ \A t \in BagToSet(client[c].toastTimers) :
             (client[c].toast # << >> /\ ToastExpiry(c, t))
               => now >= client[c].toastAt + TOAST_EXPIRY_MS ]_vars

\* C25: once a connection's disconnect handler has run none of its timers
\* fires: the pending retry delay of its submission does not go on to make
\* another provider call.
C25_NoTimerAfterDisconnect ==
  [][ \A j \in BagToSet(jobs) :
        RetryTimer(j) => status[j.sock] # "disconnected" ]_vars

C27_CodeChangeIdempotent ==
  [][ \A s \in Conns, r \in EditRoomIds, c \in EditCodes :
        (r \in DOMAIN rooms /\ rooms[r].code = c /\ CodeChange(s, r, c))
          => /\ rooms' = rooms
             /\ Len(out') = 1 /\ out'[1].ev = "codeUpdate"
             /\ out'[1].payload = rooms[r].code
             /\ out = << Emit("codeUpdate", c,
                              SocketTo(socketRooms, status, s, r)) >>
                  => out' = out ]_vars

\* the first connection has written the same text to room r2 twice in a
\* row: the document and the emission are those of the first application
C27_Witness ==
  /\ BoundTo("r2") = Conns
  /\ rooms["r2"].code = "print(2)"
  /\ out = << Emit("codeUpdate", "print(2)", {"s2"}) >>

\* ===================================================== normalization
\* the text fields a reply carries, in the order compiler text, program
\* output, program error text
PresentParts(d) ==
  SelectSeq(<<d.compiler_error, d.program_output, d.program_error>>,
            LAMBDA x : ~Falsy(x))

\* the parts laid out one per line
RECURSIVE OwnLines(_)
OwnLines(parts) ==
  IF Len(parts) <= 1 THEN parts
  ELSE <<Head(parts), "\n">> \o OwnLines(Tail(parts))

\* C28: the normalized output of a reply is its compiler text, then its
\* program output, then its program error text, each present part on its
\* own line and absent parts omitted, for every combination of fields.
C28_PartsOnOwnLines ==
  [][ \A j \in BagToSet(jobs), d \in ProviderData :
        (j.roomId \in DOMAIN rooms /\ PresentParts(d) # << >>
           /\ ProviderSuccess(j, d))
          => /\ Normalize(d) = OwnLines(PresentParts(d))
             /\ rooms'[j.roomId].output = OwnLines(PresentParts(d)) ]_vars

\* C29: a reply that carries none of the three text fields is normalized to
\* the 'no output' message when its status signals success and to the
\* 'compilation/runtime error' message otherwise; no output is empty.
C29_EmptyReplyMessage ==
  [][ \A j \in BagToSet(jobs), d \in ProviderData :
        (j.roomId \in DOMAIN rooms /\ ProviderSuccess(j, d))
          => /\ Len(out') = 1 /\ out'[1].payload # << >>
             /\ rooms'[j.roomId].output = out'[1].payload
             /\ PresentParts(d) = << >>
                  => out'[1].payload = IF d.status = "0"
                                         THEN <<"(No output)">>
                                         ELSE <<"Compilation/runtime error">> ]_vars

\* a run whose reply carried no text and a failure status has just been
\* reported with the 'compilation/runtime error' message
C29_Witness ==
  /\ "r1" \in DOMAIN rooms
  /\ rooms["r1"].output = <<"Compilation/runtime error">>
  /\ Len(out) = 1 /\ IsResponse(out[1])
  /\ out[1].payload = <<"Compilation/runtime error">>
  /\ jobs = EmptyBag

\* ============================================================ termination
\* the number of codeResponse events among the emissions o of a step
Responses(o) == Cardinality({i \in 1..Len(o) : IsResponse(o[i])})

\* C30: every compileCode submission for a registered room is answered with
\* exactly one codeResponse: at once when it is refused, otherwise when its
\* provider call ends, after at most three calls; a step emits a response
\* only to answer a submission, and every pending submission is eventually
\* answered.
C30_OneResponsePerSubmission ==
  /\ [][ /\ Responses(out') <= 1
         /\ \A s \in Conns, r \in LiveRoomIds, l \in LiveLanguages :
              (r \in DOMAIN rooms /\ CompileCode(s, r, l))
                => \/ Responses(out') = 1 /\ jobs' = jobs
                   \/ Responses(out') = 0 /\ StartsCall(s, r)
         /\ \A j \in BagToSet(jobs) : j.calls <= MAX_RETRIES + 1
         /\ BagCardinality(jobs') < BagCardinality(jobs) =>
              /\ Responses(out') = 1
              /\ \E j \in BagToSet(jobs) : jobs' = jobs (-) SetToBag({j})
         /\ BagCardinality(jobs') >= BagCardinality(jobs) /\ Responses(out') = 1
              => \E s \in Conns, r \in LiveRoomIds, l \in LiveLanguages :
                   CompileCode(s, r, l) /\ jobs' = jobs ]_vars
  /\ \A s \in Conns : HasJob(s) ~> ~HasJob(s)

\* a submission whose three provider calls all timed out has just been
\* answered with its one error response
C30_Witness ==
  /\ jobs = EmptyBag
  /\ Len(out) = 1 /\ ErrorShaped(out[1]) /\ out[1].payload[2] = "ETIMEDOUT"

\* ========================================================= rate limiting
\* C31: the wait stated in a rate-limit rejection is the time left of the
\* cooldown since the connection's last accepted submission, in seconds and
\* rounded up to a whole number; it is 1, 2 or 3.
C31_WaitInWholeSeconds ==
  [][ \A s \in Conns, r \in OverlapRoomIds, l \in OverlapLanguages :
        (r \in DOMAIN rooms /\ RateLimited(s) /\ CompileCode(s, r, l))
          => /\ Len(out') = 1 /\ TryLater(out'[1])
             /\ lastAccepted[s] # 0
             /\ LET left == COMPILE_COOLDOWN_MS - (now - lastAccepted[s])
                    wait == out'[1].payload[2]
                IN /\ wait \in 1..3
                   /\ wait * 1000 >= left
                   /\ (wait - 1) * 1000 < left ]_vars

\* a submission 1500 ms after the accepted one has just been refused with a
\* wait of 2 seconds
C31_Witness ==
  \E s \in Conns :
    /\ lastAccepted[s] # 0 /\ now - lastAccepted[s] = 1500
    /\ Len(out) = 1 /\ TryLater(out[1]) /\ out[1].payload[2] = 2
    /\ s \in out[1].to

\* ======================================================= changing rooms
\* C32: a join sent while joined to another room does to the prior room what
\* leaveRoom does: the name is removed, the room is deleted if it became
\* empty, and its remaining connections are sent the 'left' notice and then
\* the member set after the removal, ahead of the new room's events.
C32_ImplicitLeaveAsLeaveRoom ==
  [][ \A s \in Conns, r \in RoomIds, u \in UserNames :
        (LeaveGuard(s) /\ currentRoom[s] # r /\ Join(s, r, u))
          => LET p == currentRoom[s]
                 after == RemoveMember(s)
                 rest == BoundTo(p) \ {s}
             IN /\ (p \in DOMAIN rooms') <=> (p \in DOMAIN after)
                /\ p \in DOMAIN after => rooms'[p].users = after[p].users
                /\ Len(out') >= 2
                /\ out'[1].ev = "toast"
                /\ out'[1].payload = <<currentUser[s], " left the room">>
                /\ rest \subseteq out'[1].to
                /\ out'[2].ev = "userJoined"
                /\ out'[2].payload = rooms[p].users \ {currentUser[s]}
                /\ rest \subseteq out'[2].to ]_vars

\* C34: on leaveRoom the 'left the room' toast and then the userJoined with
\* the member set after the removal are emitted while the leaving connection
\* is still subscribed, so it receives both; it is unsubscribed afterwards.
C34_LeaverReceivesToast ==
  [][ \A s \in Conns :
        (LeaveGuard(s) /\ LeaveRoom(s))
          => LET r == currentRoom[s] IN
             /\ Len(out') = 2
             /\ out'[1].ev = "toast"
             /\ out'[1].payload = <<currentUser[s], " left the room">>
             /\ s \in out'[1].to /\ BoundTo(r) \subseteq out'[1].to
             /\ out'[2].ev = "userJoined"
             /\ out'[2].payload = rooms[r].users \ {currentUser[s]}
             /\ r \in DOMAIN rooms' => out'[2].payload = rooms'[r].users
             /\ s \in out'[2].to /\ BoundTo(r) \subseteq out'[2].to
             /\ r \notin socketRooms'[s] ]_vars

\* the first of two connections in room r1 has just left it: the toast and
\* the remaining member went to both connections
C34_Witness ==
  /\ currentRoom["s1"] = Null /\ "r1" \notin socketRooms["s1"]
  /\ currentRoom["s2"] = "r1" /\ currentUser["s2"] = "bob"
  /\ out = << Emit("toast", <<"alice", " left the room">>, Conns),
              Emit("userJoined", {"bob"}, Conns) >>

\* ================================================ overlapping submissions
\* the provider calls started by connection s that have not returned
CallsInFlight(s) ==
  LET mine == {j \in BagToSet(jobs) : j.sock = s /\ j.pc = "calling"}
  IN BagCardinality([j \in mine |-> CopiesIn(j, jobs)])

\* C33: at most one provider call started by a given connection is in
\* flight at any time.
C33_OneCallPerConnection ==
  \A s \in Conns : CallsInFlight(s) <= 1

\* the failure of call j with error code e ends its submission
Hard(j, e) == j.retries = 0 \/ ~Transient(e)

\* C35: a hard failure does not remove the rate-limit timestamp of a later
\* accepted submission of the same connection.  A submission that is past a
\* retry was accepted at least one retry delay ago; when the connection's
\* latest accepted submission is younger than that and its timestamp is the
\* current entry, the hard failure of the older one leaves the entry alone.
C35_FailureKeepsLaterTimestamp ==
  [][ \A j \in BagToSet(jobs), e \in ErrCodes :
        (/\ j.calls >= 2
         /\ now - lastAccepted[j.sock] < RETRY_DELAY_MS
         /\ j.sock \in DOMAIN lastCompileTime
         /\ lastCompileTime[j.sock] = lastAccepted[j.sock]
         /\ Hard(j, e)
         /\ ProviderFailure(j, e))
          => /\ j.sock \in DOMAIN lastCompileTime'
             /\ lastCompileTime'[j.sock] = lastCompileTime[j.sock] ]_vars

\* C36: a refused submission changes nothing but what is sent: the
\* connection's rate-limit timestamp, the room's document, members and last
\* output, the sessions and the pending calls stay as they are, and one
\* try-later message goes to the room; the cooldown still runs from the
\* last accepted submission.
C36_RejectionChangesNothing ==
  [][ \A s \in Conns, r \in OverlapRoomIds, l \in OverlapLanguages :
        (r \in DOMAIN rooms /\ RateLimited(s) /\ CompileCode(s, r, l))
          => /\ UNCHANGED <<lastCompileTime, lastAccepted, rooms, jobs, status,
                            currentRoom, currentUser, socketRooms>>
             /\ Len(out') = 1 /\ TryLater(out'[1])
             /\ out'[1].to = IoTo(socketRooms, status, r)
             /\ lastCompileTime'[s] = lastAccepted[s] ]_vars

\* a submission has just been refused 2500 ms after the accepted one, whose
\* call has returned: the timestamp is still that of the accepted one
C36_Witness ==
  \E s \in Conns :
    /\ lastAccepted[s] # 0 /\ now - lastAccepted[s] = 2500
    /\ s \in DOMAIN lastCompileTime /\ lastCompileTime[s] = lastAccepted[s]
    /\ Len(out) = 1 /\ TryLater(out[1]) /\ out[1].payload[2] = 1
    /\ jobs = EmptyBag
    /\ rooms["r1"].output = <<"pout">>

\* C37: the rate-limit timestamp is recorded only by a submission that goes
\* on to call the provider: a submission answered with 'unsupported
\* language' leaves the rate-limit map as it was.
C37_UnsupportedKeepsCooldown ==
  [][ \A s \in Conns, r \in OverlapRoomIds, l \in OverlapLanguages :
        (r \in DOMAIN rooms /\ CompileCode(s, r, l))
          => /\ lastCompileTime' # lastCompileTime => StartsCall(s, r)
             /\ (Len(out') = 1 /\ Unsupported(out'[1]))
                  => lastCompileTime' = lastCompileTime ]_vars

\* ============================================================ isolation
\* C38: in every reachable state the connections that receive the
\* broadcasts for a room id are the live connections whose session's
\* current room is that id.
C38_AudienceIsBoundSessions ==
  \A r \in RoomIdInputs : IoTo(socketRooms, status, r) = BoundTo(r)

\* C39: a codeChange, typing, languageChange or compileCode that names a
\* registered room to which the sending connection's session is not bound
\* changes nothing in that room, starts no call for it and sends nothing to
\* the connections of the room.
C39_OutsiderHasNoEffect ==
  [][ \A s \in Conns, r \in ConcurrentRoomIds :
        (/\ r \in DOMAIN rooms
         /\ currentRoom[s] # r
         /\ \/ \E c \in ConcurrentCodes : CodeChange(s, r, c)
            \/ \E u \in ConcurrentUserNames : Typing(s, r, u)
            \/ \E l \in ConcurrentLanguages : LanguageChange(s, r, l)
            \/ \E l \in ConcurrentLanguages : CompileCode(s, r, l))
          => /\ rooms'[r] = rooms[r]
             /\ jobs' = jobs
             /\ \A i \in 1..Len(out') : out'[i].to \cap BoundTo(r) = {} ]_vars

\* the submissions of connection s that are pending
PendingOf(s) ==
  LET mine == {j \in BagToSet(jobs) : j.sock = s}
  IN BagCardinality([j \in mine |-> CopiesIn(j, jobs)])

\* C40: when the room of a submission was deleted while its call was in
\* flight and a room is registered under the same id again by the time the
\* call succeeds, the new room's last output is not set from the result and
\* no codeResponse for it reaches the new room's connections.
C40_StaleResultNotRecorded ==
  [][ \A j \in BagToSet(jobs), d \in GatewayReplies :
        (/\ j.roomId \in DOMAIN stale
         /\ j.sock \in stale[j.roomId]
         /\ PendingOf(j.sock) = 1
         /\ j.roomId \in DOMAIN rooms
         /\ ProviderSuccess(j, d))
          => /\ rooms'[j.roomId].output = rooms[j.roomId].output
             /\ \A i \in 1..Len(out') :
                  IsResponse(out'[i]) => out'[i].to \cap BoundTo(j.roomId) = {} ]_vars

====
